---------------------------- MODULE Spec2Model ----------------------------
(***************************************************************************)
(* A model of src/scraper.js: the sanitizeTitle filename sanitizer and the *)
(* main() crawl (directory bootstrap, browser session, pagination loop,    *)
(* per-item detail fetch / extract / write, teardown).                     *)
(*                                                                         *)
(* JavaScript strings are sequences of one-character strings.  A value     *)
(* that may be null/undefined is an option: None or Some(v).               *)
(***************************************************************************)
EXTENDS Integers, Sequences, FiniteSets, TLC

(***************************************************************************)
(* Bounds of the model.                                                    *)
(***************************************************************************)
\* longest prefix / suffix put around the long run of a generated title
MaxAffix == 2
\* Date.now() answers a value in 0..MaxNow
MaxNow == 10
\* number of distinct listing URLs the site can answer with
NUrls == 2
\* most gallery items on one listing page
MaxItems == 2
\* pageCount is tracked exactly up to this value and saturates there
MaxPageCount == 2

(***************************************************************************)
(* Program constants.                                                      *)
(***************************************************************************)
\* .substring(0, 150)
MaxLen == 150
\* START_URL, as an index into the listing URLs
START_URL == 1

None == <<>>
Some(v) == <<v>>

Min(a, b) == IF a < b THEN a ELSE b

(***************************************************************************)
(* sanitizeTitle and the string operations it chains.                      *)
(***************************************************************************)
\* the character class [<>:"/\\|?*]
IllegalChars == {"<", ">", ":", "\"", "/", "\\", "|", "?", "*"}

\* the characters \s matches and trim() removes, among those generated
Whitespace == {" ", "\t"}

\* .replace(/[<>:"/\\|?*]+/g, ""), dropping "/" from the class
StripIllegal_NoSlash(s) == SelectSeq(s, LAMBDA c : c \notin (IllegalChars \ {"/"}))

\* .replace(/[<>:"/\\|?*]+/g, "")
StripIllegal(s) == SelectSeq(s, LAMBDA c : c \notin IllegalChars)

\* .replace(/\s+/g, " "): every maximal run of whitespace becomes one space
CollapseWs(s) ==
    LET \* each character, whitespace turned into a space, with whether it
        \* continues a run of whitespace
        marked == [k \in 1..Len(s) |->
                     <<IF s[k] \in Whitespace THEN " " ELSE s[k],
                       s[k] \in Whitespace /\ k > 1 /\ s[k-1] \in Whitespace>>]
        kept   == SelectSeq(marked, LAMBDA m : ~m[2])
    IN  [k \in 1..Len(kept) |-> kept[k][1]]

\* .trim()
Trim(s) ==
    LET solid == {k \in 1..Len(s) : s[k] \notin Whitespace}
    IN  IF solid = {} THEN <<>>
        ELSE LET first == CHOOSE k \in solid : \A j \in solid : k <= j
                 last  == CHOOSE k \in solid : \A j \in solid : j <= k
             IN  SubSeq(s, first, last)

\* .substring(0, n)
Substring0(s, n) == SubSeq(s, 1, Min(Len(s), n))

DigitChars == <<"0", "1", "2", "3", "4", "5", "6", "7", "8", "9">>

\* the decimal string a template literal makes of a non-negative integer
RECURSIVE ToDecimal(_)
ToDecimal(n) ==
    IF n < 10 THEN <<DigitChars[n + 1]>>
    ELSE Append(ToDecimal(n \div 10), DigitChars[(n % 10) + 1])

\* "project-"
ProjectPrefix == <<"p", "r", "o", "j", "e", "c", "t", "-">>

\* !title : null, undefined or the empty string
Falsy(title) == title = None \/ title[1] = <<>>

\* sanitizeTitle with the guard testing only for null/undefined
sanitizeTitle_NullOnly(title, now) ==
    IF title = None
    THEN ProjectPrefix \o ToDecimal(now)
    ELSE Substring0(Trim(CollapseWs(StripIllegal(title[1]))), MaxLen)

\* sanitizeTitle(title), with the value Date.now() answers when it is called
sanitizeTitle(title, now) ==
    IF Falsy(title)
    THEN ProjectPrefix \o ToDecimal(now)
    ELSE Substring0(Trim(CollapseWs(StripIllegal(title[1]))), MaxLen)


(***************************************************************************)
(* State.                                                                  *)
(***************************************************************************)
VARIABLES
    \* main(): the statement main() is at
    pc,
    \* whether OUTPUT_DIR exists
    dirExists,
    \* the browser session: "none", "open" or "closed"
    browser,
    \* how many times browser.close() has been called
    closeCalls,
    \* let currentPageUrl (None is null), let pageCount
    currentPageUrl, pageCount,
    \* what nextButton.isVisible() answered in this iteration
    nextVisible,
    \* const projectLinks, and the for loop's i (0-based, as in the code)
    projectLinks, i,
    \* let projectPage: "undef", "open" or "closed"
    projectPage,
    \* const title, const sanitized, const allContent of the current item
    title, sanitized, allContent,
    \* the statement whose error the item's catch block caught, or "none"
    itemErr,
    \* the statement whose error the outer catch block caught, or "none"
    fatalAt,
    \* the statement whose error left main() uncaught, or "none"
    uncaughtAt,
    \* the files of OUTPUT_DIR: file name -> content
    files,
    \* history: the listing URLs the loop has started on, and whether one came twice
    visited, revisited,
    \* history: the entries (1-based) of the current page a detail fetch was
    \* started for, and those whose processing failed
    attempted, failedItems,
    \* history: writeFileSync calls that succeeded for the current item
    writeCount,
    \* history: whether the current item's write replaced an existing file
    overwrote,
    \* what the loaded detail page holds: "noContent" (no content region),
    \* "noTitle" (a content region without h1), "full", or "none" before the load
    detailDom,
    \* the detail tabs open in the browser context
    openTabs,
    \* history: file name -> payload of the last entry processed without error
    \* whose sanitized title gave that name
    lastFor,
    \* the sanitizer harness: position, input title, what Date.now() answered
    \* in the first call, first output, output of the call on that output
    sPc, sTitle, sNow, sOut, sOut2

sessVars == <<dirExists, browser, closeCalls>>
pageVars == <<currentPageUrl, pageCount, nextVisible, visited, revisited>>
listVars == <<projectLinks, i, attempted, failedItems>>
itemVars == <<projectPage, title, sanitized, allContent, itemErr, writeCount, overwrote, detailDom>>
errVars  == <<fatalAt, uncaughtAt>>
sanVars  == <<sPc, sTitle, sNow, sOut, sOut2>>
mainVars == <<pc, sessVars, pageVars, listVars, itemVars, errVars, files, lastFor, openTabs>>
vars     == <<mainVars, sanVars>>

(***************************************************************************)
(* What the site, the browser and the file system can answer.              *)
(***************************************************************************)
\* the listing URLs page.url() can answer
Urls == 1..NUrls

\* el.href of a gallery anchor: "" when the anchor has no href
Links == {"", "A"}

LinkSeqs == UNION {[1..n -> Links] : n \in 0..MaxItems}

\* what textContent() of the title element can answer
Titles == {None, Some(<<>>), Some(<<"a", "/", "b">>), Some(<<"a", "b">>), Some(<<" ">>)}

\* what textContent() of the content region can answer
Contents == {None, Some(""), Some("Hello")}

\* what Date.now() can answer during a crawl
CrawlTimes == {MaxNow - 1, MaxNow}

\* what a loaded detail page can hold: no #app-details-left, one without an
\* h1, or one with an h1
DetailDoms == {"noContent", "noTitle", "full"}

\* ".txt"
TxtSuffix == <<".", "t", "x", "t">>

NoFiles == [n \in {} |-> ""]

\* `${sanitized}.txt`
FileName(s) == s \o TxtSuffix

\* the payload passed to writeFileSync without the fallback
Payload_NoFallback(c) == IF c = None THEN "" ELSE c[1]

\* allContent || "No content found."
Payload(c) == IF c = None \/ c[1] = "" THEN "No content found." ELSE c[1]

(***************************************************************************)
(* main()                                                                  *)
(***************************************************************************)
MainInit ==
    /\ pc = "mkdir"
    /\ dirExists \in BOOLEAN
    /\ browser = "none"
    /\ closeCalls = 0
    /\ currentPageUrl = Some(START_URL)
    /\ pageCount = 1
    /\ nextVisible = "unset"
    /\ projectLinks = <<>>
    /\ i = 0
    /\ projectPage = "undef"
    /\ title = None
    /\ sanitized = <<>>
    /\ allContent = None
    /\ itemErr = "none"
    /\ fatalAt = "none"
    /\ uncaughtAt = "none"
    /\ files = NoFiles
    /\ visited = {}
    /\ revisited = FALSE
    /\ attempted = {}
    /\ failedItems = {}
    /\ writeCount = 0
    /\ overwrote = FALSE
    /\ detailDom = "none"
    /\ openTabs = 0
    /\ lastFor = NoFiles

SanOff ==
    /\ sPc = "off"
    /\ sTitle = None
    /\ sNow = 0
    /\ sOut = <<>>
    /\ sOut2 = <<>>

Init == MainInit /\ SanOff

\* an error thrown inside the outer try: the outer catch logs it, the finally follows
Fatal(at) ==
    /\ fatalAt' = at
    /\ pc' = "closeBrowser"
    /\ UNCHANGED uncaughtAt

\* an error thrown outside every try: main()'s promise rejects
Uncaught(at) ==
    /\ uncaughtAt' = at
    /\ pc' = "done"
    /\ UNCHANGED fatalAt

\* step 1 with the return missing from its catch block
MkDir_NoReturn ==
    /\ pc = "mkdir"
    /\ \/ /\ dirExists
          /\ pc' = "launch"
          /\ UNCHANGED dirExists
       \/ /\ ~dirExists
          /\ dirExists' = TRUE
          /\ pc' = "launch"
       \/ /\ ~dirExists
          /\ pc' = "launch"
          /\ UNCHANGED dirExists
    /\ UNCHANGED <<browser, closeCalls, pageVars, listVars, itemVars, errVars, files, lastFor,
                   openTabs, sanVars>>

\* step 1: create the output directory if it does not exist
MkDir ==
    /\ pc = "mkdir"
    /\ \/ /\ dirExists
          /\ pc' = "launch"
          /\ UNCHANGED dirExists
       \/ /\ ~dirExists
          /\ dirExists' = TRUE
          /\ pc' = "launch"
       \/ /\ ~dirExists
          /\ pc' = "done"
          /\ UNCHANGED dirExists
    /\ UNCHANGED <<browser, closeCalls, pageVars, listVars, itemVars, errVars, files, lastFor, openTabs, sanVars>>

\* chromium.launch()
Launch ==
    /\ pc = "launch"
    /\ \/ /\ browser' = "open"
          /\ pc' = "newContext"
          /\ UNCHANGED errVars
       \/ /\ Uncaught("launch")
          /\ UNCHANGED browser
    /\ UNCHANGED <<dirExists, closeCalls, pageVars, listVars, itemVars, files, lastFor, openTabs, sanVars>>

\* browser.newContext()
NewContext ==
    /\ pc = "newContext"
    /\ \/ /\ pc' = "newPage"
          /\ UNCHANGED errVars
       \/ Uncaught("newContext")
    /\ UNCHANGED <<sessVars, pageVars, listVars, itemVars, files, lastFor, openTabs, sanVars>>

\* context.newPage(), then the two let statements
NewPage ==
    /\ pc = "newPage"
    /\ \/ /\ pc' = "loop"
          /\ UNCHANGED errVars
       \/ Uncaught("newPage")
    /\ UNCHANGED <<sessVars, pageVars, listVars, itemVars, files, lastFor, openTabs, sanVars>>

\* pageCount++, exact up to MaxPageCount
Inc(n) == IF n < MaxPageCount THEN n + 1 ELSE n

\* while (currentPageUrl): the test, the two log lines and if (pageCount === 1)
LoopTest ==
    /\ pc = "loop"
    /\ IF currentPageUrl # None
       THEN /\ pc' = IF pageCount = 1 THEN "goto" ELSE "waitForSelector"
            /\ visited' = visited \cup {currentPageUrl[1]}
            /\ revisited' = (revisited \/ currentPageUrl[1] \in visited)
            /\ nextVisible' = "unset"
       ELSE /\ pc' = "closeBrowser"
            /\ UNCHANGED <<visited, revisited, nextVisible>>
    /\ UNCHANGED <<sessVars, currentPageUrl, pageCount, listVars, itemVars, errVars, files, lastFor, openTabs, sanVars>>

\* page.goto(currentPageUrl) of the first page
Goto ==
    /\ pc = "goto"
    /\ \/ /\ pc' = "waitForSelector"
          /\ UNCHANGED errVars
       \/ Fatal("goto")
    /\ UNCHANGED <<sessVars, pageVars, listVars, itemVars, files, lastFor, openTabs, sanVars>>

\* page.waitForSelector(GALLERY_ITEM_SELECTOR) whose timeout is logged and passed over
WaitForSelector_Swallowed ==
    /\ pc = "waitForSelector"
    /\ pc' = "evaluateAll"
    /\ fatalAt' \in {fatalAt, "waitForSelector"}
    /\ UNCHANGED uncaughtAt
    /\ UNCHANGED <<sessVars, pageVars, listVars, itemVars, files, lastFor, openTabs, sanVars>>

\* page.waitForSelector(GALLERY_ITEM_SELECTOR, { timeout: 10000 })
WaitForSelector ==
    /\ pc = "waitForSelector"
    /\ \/ /\ pc' = "evaluateAll"
          /\ UNCHANGED errVars
       \/ Fatal("waitForSelector")
    /\ UNCHANGED <<sessVars, pageVars, listVars, itemVars, files, lastFor, openTabs, sanVars>>

\* projectLocators.evaluateAll(list => list.map(el => el.href)), the log line, let i = 0
EvaluateAll ==
    /\ pc = "evaluateAll"
    /\ \/ /\ projectLinks' \in LinkSeqs
          /\ i' = 0
          /\ attempted' = {}
          /\ failedItems' = {}
          /\ pc' = "for"
          /\ UNCHANGED errVars
       \/ /\ Fatal("evaluateAll")
          /\ UNCHANGED listVars
    /\ UNCHANGED <<sessVars, pageVars, itemVars, files, lastFor, openTabs, sanVars>>

\* i < projectLinks.length; const link; let projectPage
ForTest ==
    /\ pc = "for"
    /\ IF i < Len(projectLinks)
       THEN /\ pc' = "itemNewPage"
            /\ projectPage' = "undef"
            /\ title' = None
            /\ sanitized' = <<>>
            /\ allContent' = None
            /\ itemErr' = "none"
            /\ writeCount' = 0
            /\ overwrote' = FALSE
            /\ detailDom' = "none"
       ELSE /\ pc' = "isVisible"
            /\ UNCHANGED itemVars
    /\ UNCHANGED <<sessVars, pageVars, listVars, errVars, files, lastFor, openTabs, sanVars>>

\* an error thrown in the for body with no try around it: it leaves the loop for
\* the outer finally, and the item's tab is not closed
ItemFail_NoItemTry(at) ==
    /\ itemErr' = at
    /\ failedItems' = failedItems \cup {i + 1}
    /\ pc' = "closeBrowser"

\* an error thrown inside the item's try: the item's catch logs it, the finally follows
ItemFail(at) ==
    /\ itemErr' = at
    /\ failedItems' = failedItems \cup {i + 1}
    /\ pc' = "itemFinally"

\* context.newPage() for the item
ItemNewPage ==
    /\ pc = "itemNewPage"
    /\ attempted' = attempted \cup {i + 1}
    /\ \/ /\ projectPage' = "open"
          /\ openTabs' = openTabs + 1
          /\ pc' = "itemGoto"
          /\ UNCHANGED <<itemErr, failedItems>>
       \/ /\ ItemFail("newPage")
          /\ UNCHANGED <<projectPage, openTabs>>
    /\ UNCHANGED <<sessVars, pageVars, projectLinks, i, title, sanitized, allContent,
                   writeCount, overwrote, detailDom, errVars, files, lastFor, sanVars>>

\* projectPage.goto(link): an empty link is not a URL and cannot be loaded
ItemGoto ==
    /\ pc = "itemGoto"
    /\ \/ /\ projectLinks[i + 1] # ""
          /\ detailDom' \in DetailDoms
          /\ pc' = "itemTitle"
          /\ UNCHANGED <<itemErr, failedItems>>
       \/ /\ ItemFail("goto")
          /\ UNCHANGED detailDom
    /\ UNCHANGED <<sessVars, pageVars, projectLinks, i, attempted, projectPage, title,
                   sanitized, allContent, writeCount, overwrote, errVars, files, lastFor,
                   openTabs, sanVars>>

\* the title read in a way that answers null when the content region or its h1
\* is missing, instead of timing out
ItemTitle_NullWhenMissing ==
    /\ pc = "itemTitle"
    /\ \/ /\ \E t \in (IF detailDom = "full" THEN Titles ELSE {None}) :
               /\ title' = t
               /\ \E now \in (IF Falsy(t) THEN CrawlTimes ELSE {0}) :
                      sanitized' = sanitizeTitle(t, now)
          /\ pc' = "itemContent"
          /\ UNCHANGED <<itemErr, failedItems>>
       \/ /\ ItemFail("title")
          /\ UNCHANGED <<title, sanitized>>
    /\ UNCHANGED <<sessVars, pageVars, projectLinks, i, attempted, projectPage,
                   allContent, writeCount, overwrote, detailDom, errVars, files, lastFor,
                   openTabs, sanVars>>

\* contentLocator.locator(DETAIL_TITLE_SELECTOR).textContent(), which times out
\* when the content region or its h1 is missing, then sanitizeTitle(title)
ItemTitle ==
    /\ pc = "itemTitle"
    /\ \/ /\ detailDom = "full"
          /\ \E t \in Titles :
               /\ title' = t
               /\ \E now \in (IF Falsy(t) THEN CrawlTimes ELSE {0}) :
                      sanitized' = sanitizeTitle(t, now)
          /\ pc' = "itemContent"
          /\ UNCHANGED <<itemErr, failedItems>>
       \/ /\ ItemFail("title")
          /\ UNCHANGED <<title, sanitized>>
    /\ UNCHANGED <<sessVars, pageVars, projectLinks, i, attempted, projectPage,
                   allContent, writeCount, overwrote, detailDom, errVars, files, lastFor,
                   openTabs, sanVars>>

\* contentLocator.textContent()
ItemContent ==
    /\ pc = "itemContent"
    /\ \/ /\ allContent' \in Contents
          /\ pc' = "itemWrite"
          /\ UNCHANGED <<itemErr, failedItems>>
       \/ /\ ItemFail("content")
          /\ UNCHANGED allContent
    /\ UNCHANGED <<sessVars, pageVars, projectLinks, i, attempted, projectPage, title,
                   sanitized, writeCount, overwrote, detailDom, errVars, files, lastFor,
                   openTabs, sanVars>>

\* writeFileSync opening the file with flag "wx": an existing file is kept
WriteFile_KeepsExisting(fs, name, content) ==
    IF name \in DOMAIN fs THEN fs ELSE (name :> content) @@ fs

\* fs.writeFileSync(path, data) with the default flag "w": the file is created
\* or replaced
WriteFile(fs, name, content) == (name :> content) @@ fs

\* the write done as open-then-write: a failure leaves the file created empty
ItemWrite_TruncatesOnFail ==
    /\ pc = "itemWrite"
    /\ \/ /\ files' = WriteFile(files, FileName(sanitized), Payload(allContent))
          /\ writeCount' = writeCount + 1
          /\ overwrote' = (FileName(sanitized) \in DOMAIN files)
          /\ lastFor' = (FileName(sanitized) :> Payload(allContent)) @@ lastFor
          /\ pc' = "itemFinally"
          /\ UNCHANGED <<itemErr, failedItems>>
       \/ /\ ItemFail("write")
          /\ files' = WriteFile(files, FileName(sanitized), "")
          /\ UNCHANGED <<writeCount, overwrote, lastFor>>
    /\ UNCHANGED <<sessVars, pageVars, projectLinks, i, attempted, projectPage, title,
                   sanitized, allContent, detailDom, errVars, openTabs, sanVars>>

\* fs.writeFileSync(filePath, allContent || "No content found."), the log line
ItemWrite ==
    /\ pc = "itemWrite"
    /\ \/ /\ files' = WriteFile(files, FileName(sanitized), Payload(allContent))
          /\ writeCount' = writeCount + 1
          /\ overwrote' = (FileName(sanitized) \in DOMAIN files)
          /\ lastFor' = (FileName(sanitized) :> Payload(allContent)) @@ lastFor
          /\ pc' = "itemFinally"
          /\ UNCHANGED <<itemErr, failedItems>>
       \/ /\ ItemFail("write")
          /\ UNCHANGED <<files, writeCount, overwrote, lastFor>>
    /\ UNCHANGED <<sessVars, pageVars, projectLinks, i, attempted, projectPage, title,
                   sanitized, allContent, detailDom, errVars, openTabs, sanVars>>

\* the for body's block ends: its let and const bindings are gone
ItemScopeEnds ==
    /\ projectPage' = "undef"
    /\ title' = None
    /\ sanitized' = <<>>
    /\ allContent' = None
    /\ itemErr' = "none"
    /\ writeCount' = 0
    /\ overwrote' = FALSE
    /\ detailDom' = "none"

\* the item's finally without the close of the tab
ItemFinally_NoClose ==
    /\ pc = "itemFinally"
    /\ ItemScopeEnds
    /\ i' = i + 1
    /\ pc' = "for"
    /\ UNCHANGED <<errVars, openTabs>>
    /\ UNCHANGED <<sessVars, pageVars, projectLinks, attempted, failedItems, files, lastFor,
                   sanVars>>

\* finally { if (projectPage) await projectPage.close() }, then i++
ItemFinally ==
    /\ pc = "itemFinally"
    /\ \/ /\ projectPage = "undef"
          /\ ItemScopeEnds
          /\ i' = i + 1
          /\ pc' = "for"
          /\ UNCHANGED <<errVars, openTabs>>
       \/ /\ projectPage = "open"
          /\ openTabs' = openTabs - 1
          /\ ItemScopeEnds
          /\ i' = i + 1
          /\ pc' = "for"
          /\ UNCHANGED errVars
       \/ /\ projectPage = "open"
          /\ Fatal("itemClose")
          /\ UNCHANGED <<itemVars, i, openTabs>>
    /\ UNCHANGED <<sessVars, pageVars, projectLinks, attempted, failedItems, files, lastFor,
                   sanVars>>

\* the while body's block ends: its const bindings are gone
PageScopeEnds ==
    /\ projectLinks' = <<>>
    /\ i' = 0
    /\ attempted' = {}
    /\ failedItems' = {}

\* the if statement with an else branch that leaves currentPageUrl as it is
IsVisible_KeepsUrl ==
    /\ pc = "isVisible"
    /\ \/ /\ nextVisible' = "yes"
          /\ pc' = "click"
          /\ UNCHANGED <<currentPageUrl, listVars, errVars>>
       \/ /\ nextVisible' = "no"
          /\ PageScopeEnds
          /\ pc' = "loop"
          /\ UNCHANGED <<currentPageUrl, errVars>>
       \/ /\ Fatal("isVisible")
          /\ UNCHANGED <<nextVisible, currentPageUrl, listVars>>
    /\ UNCHANGED <<sessVars, pageCount, visited, revisited, itemVars, files, lastFor, openTabs, sanVars>>

\* if (await nextButton.isVisible()) ... else { currentPageUrl = null }
IsVisible ==
    /\ pc = "isVisible"
    /\ \/ /\ nextVisible' = "yes"
          /\ pc' = "click"
          /\ UNCHANGED <<currentPageUrl, listVars, errVars>>
       \/ /\ nextVisible' = "no"
          /\ currentPageUrl' = None
          /\ PageScopeEnds
          /\ pc' = "loop"
          /\ UNCHANGED errVars
       \/ /\ Fatal("isVisible")
          /\ UNCHANGED <<nextVisible, currentPageUrl, listVars>>
    /\ UNCHANGED <<sessVars, pageCount, visited, revisited, itemVars, files, lastFor, openTabs, sanVars>>

\* nextButton.click()
Click ==
    /\ pc = "click"
    /\ \/ /\ pc' = "waitForLoadState"
          /\ UNCHANGED errVars
       \/ Fatal("click")
    /\ UNCHANGED <<sessVars, pageVars, listVars, itemVars, files, lastFor, openTabs, sanVars>>

\* page.waitForLoadState("domcontentloaded"); currentPageUrl = page.url(); pageCount++
WaitForLoadState ==
    /\ pc = "waitForLoadState"
    /\ \/ /\ \E u \in Urls : currentPageUrl' = Some(u)
          /\ pageCount' = Inc(pageCount)
          /\ PageScopeEnds
          /\ pc' = "loop"
          /\ UNCHANGED errVars
       \/ /\ Fatal("waitForLoadState")
          /\ UNCHANGED <<currentPageUrl, pageCount, listVars>>
    /\ UNCHANGED <<sessVars, nextVisible, visited, revisited, itemVars, files, lastFor, openTabs, sanVars>>

\* finally { await browser.close() }, the last log line, and main() ends
CloseBrowser ==
    /\ pc = "closeBrowser"
    /\ closeCalls' = closeCalls + 1
    /\ \/ /\ browser' = "closed"
          /\ openTabs' = 0
          /\ pc' = "done"
          /\ UNCHANGED errVars
       \/ /\ Uncaught("closeBrowser")
          /\ UNCHANGED <<browser, openTabs>>
    /\ UNCHANGED <<dirExists, pageVars, listVars, itemVars, files, lastFor, sanVars>>

Next ==
    \/ MkDir
    \/ Launch
    \/ NewContext
    \/ NewPage
    \/ LoopTest
    \/ Goto
    \/ WaitForSelector
    \/ EvaluateAll
    \/ ForTest
    \/ ItemNewPage
    \/ ItemGoto
    \/ ItemTitle
    \/ ItemContent
    \/ ItemWrite
    \/ ItemFinally
    \/ IsVisible
    \/ Click
    \/ WaitForLoadState
    \/ CloseBrowser

Spec == Init /\ [][Next]_vars

\* every await of main() settles (each has a timeout), so main() keeps stepping
FairSpec == Init /\ [][Next]_vars /\ WF_vars(Next)

(***************************************************************************)
(* sanitizeTitle on its own: a title is drawn, sanitizeTitle is called on  *)
(* it, and then on its own output.                                         *)
(***************************************************************************)
\* the characters generated titles are made of
Alphabet == {"a", "/", " ", "\t"}

Affixes == UNION {[1..n -> Alphabet] : n \in 0..MaxAffix}

\* "a" repeated n times
Run(n) == [k \in 1..n |-> "a"]

\* lengths of the long run: none, or one that puts the affixes around character 150
RunLens == {0, MaxLen - 1, MaxLen}

\* null/undefined, and strings of up to MaxLen + 2 * MaxAffix characters
SanTitles ==
    {None} \cup {Some(p \o Run(n) \o q) : p \in Affixes, q \in Affixes, n \in RunLens}

\* the values Date.now() can answer; it is read only on the fallback path
Times(t) == IF Falsy(t) THEN 0..MaxNow ELSE {0}

SanInit ==
    /\ MainInit
    /\ dirExists
    /\ sPc = "input"
    /\ sTitle \in SanTitles
    /\ sNow = 0
    /\ sOut = <<>>
    /\ sOut2 = <<>>

\* sanitizeTitle(title)
SanitizeOnce ==
    /\ sPc = "input"
    /\ \E now \in Times(sTitle) :
          /\ sNow' = now
          /\ sOut' = sanitizeTitle(sTitle, now)
    /\ sPc' = "once"
    /\ UNCHANGED <<mainVars, sTitle, sOut2>>

\* sanitizeTitle(sanitizeTitle(title))
SanitizeTwice ==
    /\ sPc = "once"
    /\ \E now \in Times(Some(sOut)) : sOut2' = sanitizeTitle(Some(sOut), now)
    /\ sPc' = "twice"
    /\ UNCHANGED <<mainVars, sTitle, sNow, sOut>>

SanNext == SanitizeOnce \/ SanitizeTwice

SanSpec == SanInit /\ [][SanNext]_vars

(***************************************************************************)
(* Properties of sanitizeTitle (checked under SanSpec).                    *)
(***************************************************************************)
\* C7: sanitizer idempotence: sanitizeTitle(sanitizeTitle(t)) = sanitizeTitle(t)
\* for every title t.
C7_Idempotent == sPc = "twice" => sOut2 = sOut

\* C8: for every non-empty input string the output has at most 150 characters,
\* none of them one of < > : " / \ | ? *, and every whitespace character in it
\* is a space that does not follow another whitespace character.
C8_SafeBounded ==
    (sPc # "input" /\ sTitle # None /\ sTitle[1] # <<>>) =>
        /\ Len(sOut) <= 150
        /\ \A k \in 1..Len(sOut) :
              /\ sOut[k] \notin {"<", ">", ":", "\"", "/", "\\", "|", "?", "*"}
              /\ sOut[k] \in {" ", "\t"} =>
                    /\ sOut[k] = " "
                    /\ k > 1 => sOut[k-1] \notin {" ", "\t"}

\* C8 witness: an input longer than 150 characters holding an illegal character
\* and a run of two whitespace characters has been sanitized to 150 characters.
C8_Witness ==
    /\ sPc = "once"
    /\ sTitle # None
    /\ Len(sTitle[1]) > 150
    /\ \E k \in 1..Len(sTitle[1]) : sTitle[1][k] = "/"
    /\ \E k \in 2..Len(sTitle[1]) : sTitle[1][k] = "\t" /\ sTitle[1][k-1] = " "
    /\ Len(sOut) = 150

\* the number a string of decimal digits denotes
RECURSIVE FromDecimal(_)
FromDecimal(d) ==
    IF d = <<>> THEN 0
    ELSE 10 * FromDecimal(SubSeq(d, 1, Len(d) - 1))
         + (CHOOSE v \in 0..9 : DigitChars[v + 1] = d[Len(d)])

\* C9: for an absent or empty title the output is "project-" followed only by
\* decimal digits, and they are the digits of the current time.
C9_Fallback ==
    (sPc # "input" /\ (sTitle = None \/ sTitle[1] = <<>>)) =>
        /\ Len(sOut) > 8
        /\ SubSeq(sOut, 1, 8) = <<"p", "r", "o", "j", "e", "c", "t", "-">>
        /\ \A k \in 9..Len(sOut) :
              sOut[k] \in {"0", "1", "2", "3", "4", "5", "6", "7", "8", "9"}
        /\ FromDecimal(SubSeq(sOut, 9, Len(sOut))) = sNow
        /\ (Len(sOut) > 9 => sOut[9] # "0")

\* C9 witness: the empty string has been sanitized at a time of two digits.
C9_Witness ==
    /\ sPc = "once"
    /\ sTitle = Some(<<>>)
    /\ sNow >= 10
    /\ Len(sOut) = 10

(***************************************************************************)
(* Properties of main() (checked under Spec, C6 under FairSpec).           *)
(***************************************************************************)
\* the statements of steps 3 and 4 that load a listing page and read its entries
ListingSteps == {"goto", "waitForSelector", "evaluateAll"}

\* C1: per-item isolation: when the processing of an entry of a page has failed,
\* every entry of that page is still fetched and the for loop runs to its end
\* (the pagination step), whatever way the run ends.
C1_Isolation ==
    (failedItems # {} /\ pc \in {"closeBrowser", "done"}) =>
        /\ attempted = 1..Len(projectLinks)
        /\ i = Len(projectLinks)

\* C2: a listing failure is fatal: the step that fails goes to the teardown
\* with no detail fetch started for that page and the files unchanged, and from
\* then on the run only closes the browser and ends: no fetch, no write, no
\* other listing page.
C2_ListingFatal ==
    [][ /\ (fatalAt = "none" /\ fatalAt' \in ListingSteps) =>
              /\ pc' = "closeBrowser"
              /\ attempted' = {}
              /\ files' = files
        /\ fatalAt \in ListingSteps =>
              /\ pc \in {"closeBrowser", "done"}
              /\ pc' = "done"
              /\ fatalAt' = fatalAt
              /\ attempted' = {}
              /\ files' = files
              /\ visited' = visited
              /\ currentPageUrl' = currentPageUrl
              /\ pageCount' = pageCount ]_vars

\* C2 witness: the run has ended on a listing failure of a page after the
\* first, with files of earlier pages on disk.
C2_Witness ==
    /\ pc = "done"
    /\ fatalAt \in ListingSteps
    /\ pageCount > 1
    /\ files # NoFiles

\* C3: on every run that launched the browser, browser.close() has been called
\* exactly once when the run ends.
C3_ClosedOnce == (pc = "done" /\ browser # "none") => closeCalls = 1

\* C4: the loop never starts on a listing URL it has started on before.
C4_NoRepeatedUrl == ~revisited

\* the run is about to start on, or has gone on to, another listing page
Advancing == pc \in {"click", "waitForLoadState", "loop"}

\* C5, the part that holds as claimed: another listing page is started only
\* after the control was found visible; when it is not visible currentPageUrl
\* becomes null, the loop ends normally and no listing page follows; and
\* currentPageUrl becomes null in no other way.
C5_OnlyIfVisible ==
    /\ (pc = "loop" /\ currentPageUrl # None /\ visited # {}) => nextVisible = "yes"
    /\ nextVisible = "no" =>
          /\ currentPageUrl = None
          /\ pc \in {"loop", "closeBrowser", "done"}
          /\ fatalAt = "none"
    /\ currentPageUrl = None => nextVisible = "no"

\* C5 as claimed: the run advances to another listing page if and only if the
\* next-page control is visible; when it is absent the loop ends normally.
C5_AdvancesIffVisible ==
    /\ C5_OnlyIfVisible
    /\ nextVisible = "yes" => Advancing

\* C5 as amended: as claimed, except that a control found visible leads to
\* another listing page only if the click and the load wait succeed; when one
\* of them fails the run has gone to the teardown with that error.
C5_AdvancesUnlessPagerFails ==
    /\ C5_OnlyIfVisible
    /\ nextVisible = "yes" =>
          \/ Advancing
          \/ /\ pc \in {"closeBrowser", "done"}
             /\ fatalAt \in {"click", "waitForLoadState"}

\* C5 witness: a visible control has led to a second page, and on that page the
\* control was visible again but the load wait after the click failed.
C5_Witness ==
    /\ pc = "done"
    /\ pageCount > 1
    /\ nextVisible = "yes"
    /\ fatalAt = "waitForLoadState"

\* C6: every run eventually reaches its terminal state (the code has no
\* maximum page count, so that is all that is left of the claimed bound).
C6_Terminates == <>(pc = "done")

ItemSteps == {"itemNewPage", "itemGoto", "itemTitle", "itemContent", "itemWrite", "itemFinally"}

\* C12: no detail tab is open when the next item or the pagination step
\* begins, and a failure of projectPage.close() does not abort the run.
C12_TabReleased ==
    /\ pc \in {"for", "isVisible", "click", "waitForLoadState", "loop"} => openTabs = 0
    /\ fatalAt # "itemClose"

\* C13: a detail page whose content region holds no title element is processed
\* without error: the title is absent and one file named project-<digits>.txt
\* is written.
C13_MissingTitleFallback ==
    (pc = "itemFinally" /\ detailDom = "noTitle") =>
        /\ itemErr = "none"
        /\ title = None
        /\ writeCount = 1
        /\ Len(sanitized) > 8
        /\ SubSeq(sanitized, 1, 8) = <<"p", "r", "o", "j", "e", "c", "t", "-">>

\* C14: a detail page with no content region makes the entry fail: the error is
\* caught by the item's catch, no file is written or changed for the entry, and
\* the loop goes on to the next index.
C14_MissingContentSkipped ==
    /\ []((pc = "itemFinally" /\ detailDom = "noContent") =>
            /\ itemErr = "title"
            /\ (i + 1) \in failedItems
            /\ writeCount = 0)
    /\ [][detailDom = "noContent" =>
            /\ files' = files
            /\ pc' = "for" => i' = i + 1 ]_vars

\* C14 witness: after a first entry was written, the second entry's page had no
\* content region and its processing has failed.
C14_Witness ==
    /\ pc = "itemFinally"
    /\ detailDom = "noContent"
    /\ itemErr = "title"
    /\ i = 1
    /\ files # NoFiles

\* C15: the browser is released last: when browser.close() is about to be
\* called every detail tab has been closed, or abandoned after its close
\* failed; once the browser is closed the run is over with no tab left, and
\* nothing is opened, visited or written after that.
C15_BrowserReleasedLast ==
    /\ [](pc = "closeBrowser" =>
            \/ openTabs = 0
            \/ openTabs = 1 /\ fatalAt = "itemClose")
    /\ [](browser = "closed" => pc = "done" /\ openTabs = 0)
    /\ [][browser = "closed" =>
            /\ files' = files
            /\ openTabs' = openTabs
            /\ attempted' = attempted
            /\ visited' = visited ]_vars

\* C15 witness: a run that wrote a file and abandoned a tab whose close failed
\* has ended with the browser closed.
C15_Witness ==
    /\ pc = "done"
    /\ browser = "closed"
    /\ fatalAt = "itemClose"
    /\ files # NoFiles

\* C16: a gallery element without href is not among the entries to crawl, and
\* no detail fetch is started for it.
C16_NoHrefSkipped ==
    /\ \A j \in 1..Len(projectLinks) : projectLinks[j] # ""
    /\ \A j \in attempted : projectLinks[j] # ""

\* C17: the file-name stem is never empty: sanitizeTitle's result has at least
\* one character for every title the crawl reads, and no file named ".txt"
\* is written.
C17_StemNonEmpty ==
    /\ (pc \in {"itemContent", "itemWrite"}) => Len(sanitized) >= 1
    /\ <<".", "t", "x", "t">> \notin DOMAIN files

C19_Sequential ==
    /\ openTabs <= 1
    /\ pc \in {"loop", "goto", "waitForSelector", "evaluateAll", "for", "isVisible",
               "click", "waitForLoadState"} => openTabs = 0
    /\ pc = "for" => attempted = 1..i
    /\ pc = "itemNewPage" => attempted = 1..i /\ i < Len(projectLinks)
    /\ pc \in (ItemSteps \ {"itemNewPage"}) => attempted = 1..(i + 1)
    /\ pc \in {"isVisible", "click", "waitForLoadState"} =>
          /\ i = Len(projectLinks)
          /\ attempted = 1..Len(projectLinks)

\* C19 witness: on a second listing page the tab of the second entry is open,
\* the first entry having been fetched before it.
C19_Witness ==
    /\ pc = "itemGoto"
    /\ i = 1
    /\ attempted = {1, 2}
    /\ openTabs = 1
    /\ pageCount > 1

\* C20: when the output directory does not exist and cannot be created, main()
\* returns without launching the browser, visiting a page or writing a file.
C20_NoDirNoRun ==
    ~dirExists =>
        /\ pc \in {"mkdir", "done"}
        /\ browser = "none"
        /\ closeCalls = 0
        /\ openTabs = 0
        /\ visited = {}
        /\ attempted = {}
        /\ files = NoFiles
        /\ uncaughtAt = "none"

\* C20 witness: main() has returned with the output directory missing.
C20_Witness ==
    /\ pc = "done"
    /\ ~dirExists
=============================================================================
